---------------------------- MODULE Spec2Model ----------------------------
(***************************************************************************)
(* Model of api/unsubscribe/[token].js: the signed-token unsubscribe       *)
(* endpoint.  Strings and buffers are sequences of byte / character codes. *)
(* A request runs the synchronous verification of handler() in one step    *)
(* (JavaScript runs it to the first await without interleaving), then the  *)
(* two awaited storage statements of saveSuppression(), then the response. *)
(***************************************************************************)
EXTENDS Integers, Sequences, FiniteSets

\* ------------------------------------------------------------------------
\* Bounds of the model
\* ------------------------------------------------------------------------
\* number of requests in one behaviour of Spec
MaxRequests == 2
\* the emails given to the masking have up to MaxEmailLen characters
MaxEmailLen == 5
\* the clock runs over the seconds 0..MaxSec
MaxSec == 2

\* ------------------------------------------------------------------------
\* Program constants
\* ------------------------------------------------------------------------
\* the trailing signature is 32 bytes (buf.length - 32)
SigLen == 32
\* the separator byte '.'
SepByte == 46
\* minimal decoded length
MinLen == 33
\* Date.now() is in milliseconds, exp in seconds
MsPerSec == 1000

\* ------------------------------------------------------------------------
\* Sequence helpers
\* ------------------------------------------------------------------------
\* buf.subarray(from, to) with 0-based from (inclusive) and to (exclusive)
Subarray(buf, from, to) == [i \in 1..(to - from) |-> buf[from + i]]

\* ------------------------------------------------------------------------
\* base64url
\* ------------------------------------------------------------------------
\* b64url.replace(/-/g, "+").replace(/_/g, "/")
ReplaceUrlChars(str) ==
  [i \in DOMAIN str |-> IF str[i] = 45 THEN 43 ELSE IF str[i] = 95 THEN 47 ELSE str[i]]

\* "=".repeat(pad), pad = rem ? 4 - rem : 0
Padding(str) ==
  LET rem == Len(str) % 4
      pad == IF rem # 0 THEN 4 - rem ELSE 0
  IN [i \in 1..pad |-> 61]

\* value of a character of the standard base64 alphabet, -1 for any other
B64Index(c) ==
  IF c >= 65 /\ c <= 90 THEN c - 65
  ELSE IF c >= 97 /\ c <= 122 THEN c - 97 + 26
  ELSE IF c >= 48 /\ c <= 57 THEN c - 48 + 52
  ELSE IF c = 43 THEN 62
  ELSE IF c = 47 THEN 63
  ELSE -1

\* Buffer.from(b64, "base64"): characters outside the alphabet (and the
\* padding) carry no bits; every 4 characters give 3 bytes, a trailing group
\* of 2 or 3 characters gives 1 or 2 bytes
Base64Decode(b64) ==
  LET sx == SelectSeq([i \in DOMAIN b64 |-> B64Index(b64[i])], LAMBDA v : v >= 0)
      n  == (Len(sx) * 6) \div 8
      byteAt(k) ==
        LET p == 8 * (k - 1)
            j == (p \div 6) + 1
            o == p % 6
        IN IF o = 0 THEN sx[j] * 4 + (sx[j + 1] \div 16)
           ELSE IF o = 2 THEN (sx[j] % 16) * 16 + (sx[j + 1] \div 4)
           ELSE (sx[j] % 4) * 64 + sx[j + 1]
  IN [k \in 1..n |-> byteAt(k)]

base64urlToBuffer(b64url) ==
  Base64Decode(ReplaceUrlChars(b64url) \o Padding(b64url))

\* The issuer's side of the wire format (unpadded base64url of the bytes);
\* used to build the tokens the requests carry.
UrlChar(s) ==
  IF s <= 25 THEN 65 + s
  ELSE IF s <= 51 THEN 97 + (s - 26)
  ELSE IF s <= 61 THEN 48 + (s - 52)
  ELSE IF s = 62 THEN 45
  ELSE 95

Base64UrlEncode(bytes) ==
  LET n == (Len(bytes) * 8 + 5) \div 6
      at(j) == IF j <= Len(bytes) THEN bytes[j] ELSE 0
      sextet(k) ==
        LET p == 6 * (k - 1)
            j == (p \div 8) + 1
            o == p % 8
        IN IF o = 0 THEN at(j) \div 4
           ELSE IF o = 6 THEN (at(j) % 4) * 16 + (at(j + 1) \div 16)
           ELSE IF o = 4 THEN (at(j) % 16) * 4 + (at(j + 1) \div 64)
           ELSE at(j) % 64
  IN [k \in 1..n |-> UrlChar(sextet(k))]

\* ------------------------------------------------------------------------
\* HMAC and comparison
\* ------------------------------------------------------------------------
\* The secrets: UNSUB_SECRET of the deployment, and a secret of somebody else
\* "s3cret"
UNSUB_SECRET == <<115, 51, 99, 114, 101, 116>>
\* "guess"
OtherSecret == <<103, 117, 101, 115, 115>>

RECURSIVE Fold(_, _, _)
Fold(h, s, i) ==
  IF i > Len(s) THEN h ELSE Fold((h * 131 + s[i] + 1) % 65521, s, i + 1)

\* crypto.createHmac("sha256", key).update(msg).digest(): a 32-byte keyed
\* digest; the model keeps that it is a function of (key, msg) and spreads a
\* rolling hash of both over the 32 bytes
HmacSha256(key, msg) ==
  LET h == Fold(Fold(7, key, 1), msg, 1)
  IN [i \in 1..SigLen |-> ((h + 1) * (2 * i + 1) + (h \div 256) + 13 * i) % 256]

\* crypto.timingSafeEqual(ab, bb): all bytes compared, equal lengths required
timingSafeEqual(ab, bb) == \A i \in DOMAIN ab : ab[i] = bb[i]

\* (a variant: the last byte is not compared)
safeEqualButLast(a, b) ==
  IF Len(a) # Len(b) THEN FALSE
  ELSE \A i \in 1..(Len(a) - 1) : a[i] = b[i]

safeEqual(a, b) ==
  IF Len(a) # Len(b) THEN FALSE ELSE timingSafeEqual(a, b)

\* ------------------------------------------------------------------------
\* JavaScript values
\* ------------------------------------------------------------------------
\* A value has a type t; a number keeps n, a string its characters s, a
\* boolean n = 1 or 0, an array its elements a, an object its members a
\* (records [k |-> key, v |-> value], in source order).
JV(t, n, s, a) == [t |-> t, n |-> n, s |-> s, a |-> a]
JUndefined == JV("undefined", 0, <<>>, <<>>)
JNull      == JV("null", 0, <<>>, <<>>)
JNum(n)    == JV("number", n, <<>>, <<>>)
JStr(s)    == JV("string", 0, s, <<>>)
JBool(b)   == JV("boolean", IF b THEN 1 ELSE 0, <<>>, <<>>)
JArr(a)    == JV("array", 0, <<>>, a)
JObj(a)    == JV("object", 0, <<>>, a)

IsDigit(c) == c >= 48 /\ c <= 57
\* the white space String.prototype.trim() removes (ASCII part)
IsSpace(c) == c = 32 \/ (c >= 9 /\ c <= 13)

\* ------------------------------------------------------------------------
\* JSON.parse, for the grammar: null, true, false, non-negative integers,
\* strings without escapes, arrays, objects; no white space between tokens.
\* Any other text is a SyntaxError.  A result is [ok, v, i]: whether a value
\* was read, the value, and the position after it.
\* ------------------------------------------------------------------------
PFail == [ok |-> FALSE, v |-> JNull, i |-> 0]
POk(v, i) == [ok |-> TRUE, v |-> v, i |-> i]

\* does text carry the characters of word at position i
HasWord(text, i, word) ==
  /\ i + Len(word) - 1 <= Len(text)
  /\ \A k \in DOMAIN word : text[i + k - 1] = word[k]

RECURSIVE DigitsEnd(_, _)
\* position after the run of digits starting at i
DigitsEnd(text, i) ==
  IF i <= Len(text) /\ IsDigit(text[i]) THEN DigitsEnd(text, i + 1) ELSE i

RECURSIVE DigitsValue(_, _, _)
DigitsValue(text, from, to) ==
  IF to < from THEN 0
  ELSE DigitsValue(text, from, to - 1) * 10 + (text[to] - 48)

RECURSIVE QuoteAt(_, _)
\* position of the closing quote at or after i, 0 when there is none
\* (a control character or a backslash ends the supported grammar)
QuoteAt(text, i) ==
  IF i > Len(text) THEN 0
  ELSE IF text[i] = 34 THEN i
  ELSE IF text[i] < 32 \/ text[i] = 92 THEN 0
  ELSE QuoteAt(text, i + 1)

ParseString(text, i) ==
  IF i <= Len(text) /\ text[i] = 34
  THEN LET q == QuoteAt(text, i + 1)
       IN IF q = 0 THEN PFail ELSE POk(JStr(Subarray(text, i, q - 1)), q + 1)
  ELSE PFail

ParseNumber(text, i) ==
  LET e == IF text[i] = 48 THEN i + 1 ELSE DigitsEnd(text, i)
  IN POk(JNum(DigitsValue(text, i, e - 1)), e)

RECURSIVE ParseValue(_, _)
RECURSIVE ParseElements(_, _, _)
RECURSIVE ParseMembers(_, _, _)

ParseValue(text, i) ==
  IF i > Len(text) THEN PFail
  ELSE IF HasWord(text, i, <<110, 117, 108, 108>>) THEN POk(JNull, i + 4)
  ELSE IF HasWord(text, i, <<116, 114, 117, 101>>) THEN POk(JBool(TRUE), i + 4)
  ELSE IF HasWord(text, i, <<102, 97, 108, 115, 101>>) THEN POk(JBool(FALSE), i + 5)
  ELSE IF IsDigit(text[i]) THEN ParseNumber(text, i)
  ELSE IF text[i] = 34 THEN ParseString(text, i)
  ELSE IF text[i] = 91
       THEN IF i + 1 <= Len(text) /\ text[i + 1] = 93
            THEN POk(JArr(<<>>), i + 2)
            ELSE ParseElements(text, i + 1, <<>>)
  ELSE IF text[i] = 123
       THEN IF i + 1 <= Len(text) /\ text[i + 1] = 125
            THEN POk(JObj(<<>>), i + 2)
            ELSE ParseMembers(text, i + 1, <<>>)
  ELSE PFail

\* value (',' value)* ']'
ParseElements(text, i, acc) ==
  LET r == ParseValue(text, i)
  IN IF ~r.ok \/ r.i > Len(text) THEN PFail
     ELSE IF text[r.i] = 93 THEN POk(JArr(Append(acc, r.v)), r.i + 1)
     ELSE IF text[r.i] = 44 THEN ParseElements(text, r.i + 1, Append(acc, r.v))
     ELSE PFail

\* string ':' value (',' string ':' value)* '}'
ParseMembers(text, i, acc) ==
  LET k == ParseString(text, i)
  IN IF ~k.ok \/ k.i > Len(text) \/ text[k.i] # 58 THEN PFail
     ELSE LET r == ParseValue(text, k.i + 1)
              m == [k |-> k.v.s, v |-> r.v]
          IN IF ~r.ok \/ r.i > Len(text) THEN PFail
             ELSE IF text[r.i] = 125 THEN POk(JObj(Append(acc, m)), r.i + 1)
             ELSE IF text[r.i] = 44 THEN ParseMembers(text, r.i + 1, Append(acc, m))
             ELSE PFail

\* JSON.parse(text): [ok |-> FALSE] stands for the SyntaxError it throws
JSONParse(text) ==
  LET r == ParseValue(text, 1)
  IN IF r.ok /\ r.i = Len(text) + 1 THEN [ok |-> TRUE, v |-> r.v]
     ELSE [ok |-> FALSE, v |-> JNull]

\* ------------------------------------------------------------------------
\* Property access and conversions
\* ------------------------------------------------------------------------
\* "email" and "exp"
KeyEmail == <<101, 109, 97, 105, 108>>
KeyExp == <<101, 120, 112>>

\* v.key throws a TypeError for null (and undefined)
GetThrows(v) == v.t \in {"null", "undefined"}

\* v.key for a value that is not null: the last member of that name of an
\* object, undefined for every other value (no primitive or array has a
\* property named email or exp)
Get(v, key) ==
  IF v.t = "object" /\ \E j \in DOMAIN v.a : v.a[j].k = key
  THEN LET j == CHOOSE j \in DOMAIN v.a :
                  /\ v.a[j].k = key
                  /\ \A l \in DOMAIN v.a : v.a[l].k = key => l <= j
       IN v.a[j].v
  ELSE JUndefined

\* the truth value of !!v
Truthy(v) ==
  CASE v.t = "undefined" -> FALSE
    [] v.t = "null"      -> FALSE
    [] v.t = "boolean"   -> v.n = 1
    [] v.t = "number"    -> v.n # 0
    [] v.t = "string"    -> Len(v.s) > 0
    [] OTHER             -> TRUE

RECURSIVE NatToString(_)
NatToString(n) ==
  IF n < 10 THEN <<48 + n>> ELSE Append(NatToString(n \div 10), 48 + (n % 10))

RECURSIVE String(_)
RECURSIVE JoinElements(_, _)
\* String(v)
String(v) ==
  CASE v.t = "undefined" -> <<117, 110, 100, 101, 102, 105, 110, 101, 100>>
    [] v.t = "null"      -> <<110, 117, 108, 108>>
    [] v.t = "boolean"   -> IF v.n = 1 THEN <<116, 114, 117, 101>>
                                       ELSE <<102, 97, 108, 115, 101>>
    [] v.t = "number"    -> NatToString(v.n)
    [] v.t = "string"    -> v.s
    [] v.t = "array"     -> JoinElements(v.a, 1)
    [] OTHER             -> <<91, 111, 98, 106, 101, 99, 116, 32,
                              79, 98, 106, 101, 99, 116, 93>>

\* Array.prototype.join(","): null and undefined elements give ""
JoinElements(a, i) ==
  IF i > Len(a) THEN <<>>
  ELSE (IF a[i].t \in {"null", "undefined"} THEN <<>> ELSE String(a[i]))
       \o (IF i < Len(a) THEN <<44>> \o JoinElements(a, i + 1) ELSE <<>>)

RECURSIVE TrimStart(_)
TrimStart(s) ==
  IF Len(s) > 0 /\ IsSpace(s[1]) THEN TrimStart(Tail(s)) ELSE s

RECURSIVE TrimEnd(_)
TrimEnd(s) ==
  IF Len(s) > 0 /\ IsSpace(s[Len(s)]) THEN TrimEnd(SubSeq(s, 1, Len(s) - 1)) ELSE s

\* String.prototype.trim()
Trim(s) == TrimEnd(TrimStart(s))

\* String.prototype.toLowerCase() (ASCII letters)
ToLowerCase(s) ==
  [i \in DOMAIN s |-> IF s[i] >= 65 /\ s[i] <= 90 THEN s[i] + 32 ELSE s[i]]

\* A number is [nan |-> BOOLEAN, n |-> Int]
NaN == [nan |-> TRUE, n |-> 0]
Num(n) == [nan |-> FALSE, n |-> n]

\* Number(string): white space trimmed, "" is 0, decimal digits their value,
\* any other text NaN
StringToNumber(s) ==
  LET t == Trim(s)
  IN IF Len(t) = 0 THEN Num(0)
     ELSE IF \A i \in DOMAIN t : IsDigit(t[i]) THEN Num(DigitsValue(t, 1, Len(t)))
     ELSE NaN

\* Number(v)
Number(v) ==
  CASE v.t = "undefined" -> NaN
    [] v.t = "null"      -> Num(0)
    [] v.t = "boolean"   -> Num(v.n)
    [] v.t = "number"    -> Num(v.n)
    [] v.t = "string"    -> StringToNumber(v.s)
    [] v.t = "array"     -> StringToNumber(String(v))
    [] OTHER             -> NaN

\* ------------------------------------------------------------------------
\* Helpers of the handler
\* ------------------------------------------------------------------------
\* position of the first c in s at or after i, 0 when there is none
RECURSIVE IndexOf(_, _, _)
IndexOf(s, c, i) ==
  IF i > Len(s) THEN 0 ELSE IF s[i] = c THEN i ELSE IndexOf(s, c, i + 1)

\* const [local, domain] = String(email).split("@"), and the three returns
maskEmail(email) ==
  LET at1    == IndexOf(email, 64, 1)
      local  == IF at1 = 0 THEN email ELSE SubSeq(email, 1, at1 - 1)
      rest   == IF at1 = 0 THEN <<>> ELSE SubSeq(email, at1 + 1, Len(email))
      at2    == IndexOf(rest, 64, 1)
      \* domain is undefined without an "@"; "" and undefined are both falsy
      domain == IF at2 = 0 THEN rest ELSE SubSeq(rest, 1, at2 - 1)
      stars  == <<42, 42, 42, 64>>
  IN IF Len(domain) = 0 THEN email
     ELSE IF Len(local) <= 2
          THEN (IF Len(local) > 0 THEN <<local[1]>> ELSE <<>>) \o stars \o domain
          ELSE SubSeq(local, 1, 2) \o stars \o domain

\* raw.toString("utf8") for the single-byte code points; any other byte is
\* shown as the replacement character
toStringUtf8(raw) ==
  [i \in DOMAIN raw |-> IF raw[i] < 128 THEN raw[i] ELSE 65533]

IsAlpha(c) == (c >= 65 /\ c <= 90) \/ (c >= 97 /\ c <= 122)
IsSchemeChar(c) == IsAlpha(c) \/ IsDigit(c) \/ c \in {43, 45, 46}

\* new URL(s) throws a TypeError unless s is an absolute URL: a scheme
\* (a letter, then letters, digits, "+", "-", "."), a colon, and more
URLThrows(s) ==
  LET colon == IndexOf(s, 58, 1)
  IN ~ ( /\ colon > 1
         /\ colon < Len(s)
         /\ IsAlpha(s[1])
         /\ \A i \in 1..(colon - 1) : IsSchemeChar(s[i]) )

\* const token = Array.isArray(req.query.token) ? req.query.token[0] : ...
TokenOf(q) ==
  IF q.t = "array" THEN (IF Len(q.a) > 0 THEN q.a[1] ELSE JUndefined) ELSE q

\* !token || typeof token !== "string"
MissingToken(token) == ~Truthy(token) \/ token.t # "string"

\* the try block that splits the buffer: ok is FALSE where it throws
SplitToken(str) ==
  LET buf == base64urlToBuffer(str)
      n   == Len(buf)
  IN IF n < MinLen THEN [ok |-> FALSE, raw |-> <<>>, sig |-> <<>>]
     ELSE IF buf[n - MinLen + 1] # SepByte THEN [ok |-> FALSE, raw |-> <<>>, sig |-> <<>>]
     ELSE [ok |-> TRUE,
           raw |-> Subarray(buf, 0, n - MinLen),
           sig |-> Subarray(buf, n - SigLen, n)]

\* (a variant: the signature check left out)
SignatureSkipped(raw, sig) == FALSE

\* !safeEqual(expected, sig)
SignatureFails(raw, sig) == ~safeEqual(HmacSha256(UNSUB_SECRET, raw), sig)

\* !payload.email || !payload.exp
FieldsMissing(payload) ==
  ~Truthy(Get(payload, KeyEmail)) \/ ~Truthy(Get(payload, KeyExp))

\* (a variant: the comparison turned round)
ExpiredBeforeExp(nowMs, exp) ==
  LET n == Number(exp)
  IN ~n.nan /\ nowMs < n.n * MsPerSec

\* (a variant: >= in place of >)
ExpiredAtExp(nowMs, exp) ==
  LET n == Number(exp)
  IN ~n.nan /\ nowMs >= n.n * MsPerSec

\* Date.now() / 1000 > Number(payload.exp); a comparison with NaN is false
Expired(nowMs, exp) ==
  LET n == Number(exp)
  IN ~n.nan /\ nowMs > n.n * MsPerSec

\* String(payload.email).trim().toLowerCase()
NormalizeEmail(v) == ToLowerCase(Trim(String(v)))

\* The response headers are a set of <<name, value>> pairs.
\* (a variant: setting a header drops the headers set before)
SetHeaderOnly(headers, name, value) == {<<name, value>>}

\* res.setHeader(name, value): the value replaces an earlier one of the name
SetHeader(headers, name, value) ==
  {h \in headers : h[1] # name} \cup {<<name, value>>}

\* the value of a header, "" when it is not set
HeaderValue(headers, name) ==
  IF \E h \in headers : h[1] = name
  THEN (CHOOSE h \in headers : h[1] = name)[2]
  ELSE ""

\* req.method === "POST" ? "one-click" : "web"
SourceOf(method) == IF method = "POST" THEN "one-click" ELSE "web"

\* ------------------------------------------------------------------------
\* handler(), from its first line to the call of saveSuppression: what the
\* request gets (kind "response": status and body sent; kind "throw": an
\* exception leaves the handler; kind "save": saveSuppression(email, source)
\* is called)
\* ------------------------------------------------------------------------
Outcome(kind, status, body, email, source) ==
  [kind |-> kind, status |-> status, body |-> body, email |-> email, source |-> source]

Reject(status, body) == Outcome("response", status, body, <<>>, "")

\* the checks that do not read the clock: the tag of the first one that
\* fails ("" when none does) and the parsed payload
Checked(tag, payload) == [tag |-> tag, payload |-> payload]

CheckToken(q) ==
  LET token == TokenOf(q) IN
  IF MissingToken(token) THEN Checked("missing token", JNull)
  ELSE LET parts == SplitToken(token.s) IN
  IF ~parts.ok THEN Checked("bad token", JNull)
  ELSE IF SignatureFails(parts.raw, parts.sig) THEN Checked("signature", JNull)
  ELSE LET parsed == JSONParse(toStringUtf8(parts.raw)) IN
  IF ~parsed.ok THEN Checked("payload", JNull)
  ELSE IF GetThrows(parsed.v) THEN Checked("TypeError", JNull)
  ELSE IF FieldsMissing(parsed.v) THEN Checked("payload", JNull)
  ELSE Checked("", parsed.v)

\* (a variant: the method is looked at after the token)
VerifyMethodLast(method, c, nowMs) ==
  IF c.tag = "TypeError" THEN Outcome("throw", 0, "TypeError", <<>>, "")
  ELSE IF c.tag # "" THEN Reject(400, c.tag)
  ELSE IF Expired(nowMs, Get(c.payload, KeyExp)) THEN Reject(400, "expired")
  ELSE IF method # "GET" /\ method # "POST" THEN Reject(405, "Method Not Allowed")
  ELSE Outcome("save", 0, "", NormalizeEmail(Get(c.payload, KeyEmail)), SourceOf(method))

\* the outcome for a token whose clock-independent checks gave c
Verify(method, c, nowMs) ==
  IF method # "GET" /\ method # "POST" THEN Reject(405, "Method Not Allowed")
  ELSE IF c.tag = "TypeError" THEN Outcome("throw", 0, "TypeError", <<>>, "")
  ELSE IF c.tag # "" THEN Reject(400, c.tag)
  ELSE IF Expired(nowMs, Get(c.payload, KeyExp)) THEN Reject(400, "expired")
  ELSE Outcome("save", 0, "", NormalizeEmail(Get(c.payload, KeyEmail)), SourceOf(method))

\* ------------------------------------------------------------------------
\* The requests' inputs: payload texts, and the tokens made of them
\* ------------------------------------------------------------------------
PayloadNames ==
  {"A1", "A2", "B2", "Null", "Num", "Str",
   "Arr", "Bool", "Obj", "NoExp", "NoEmail", "Exp0",
   "ExpNaN", "ExpNull", "ExpStr", "ExpTrue", "EmailWs", "EmailEmpty",
   "EmailNum", "EmailArr", "EmailNull", "EmailObj", "Bad", "Empty"}

\* the payload bytes of each name
PayloadText(name) ==
  CASE name = "A1" ->
         \* {"email":"jd@x.c","exp":1}
         <<123, 34, 101, 109, 97, 105, 108, 34, 58, 34, 106, 100, 64, 120, 46, 99, 34, 44, 34, 101, 120, 112, 34, 58, 49, 125>>
    [] name = "A2" ->
         \* {"email":"Jd@X.c ","exp":2}
         <<123, 34, 101, 109, 97, 105, 108, 34, 58, 34, 74, 100, 64, 88, 46, 99, 32, 34, 44, 34, 101, 120, 112, 34, 58, 50, 125>>
    [] name = "B2" ->
         \* {"email":"k@y.d","exp":2}
         <<123, 34, 101, 109, 97, 105, 108, 34, 58, 34, 107, 64, 121, 46, 100, 34, 44, 34, 101, 120, 112, 34, 58, 50, 125>>
    [] name = "Null" ->
         \* null
         <<110, 117, 108, 108>>
    [] name = "Num" ->
         \* 7
         <<55>>
    [] name = "Str" ->
         \* "s"
         <<34, 115, 34>>
    [] name = "Arr" ->
         \* []
         <<91, 93>>
    [] name = "Bool" ->
         \* true
         <<116, 114, 117, 101>>
    [] name = "Obj" ->
         \* {}
         <<123, 125>>
    [] name = "NoExp" ->
         \* {"email":"jd@x.c"}
         <<123, 34, 101, 109, 97, 105, 108, 34, 58, 34, 106, 100, 64, 120, 46, 99, 34, 125>>
    [] name = "NoEmail" ->
         \* {"exp":2}
         <<123, 34, 101, 120, 112, 34, 58, 50, 125>>
    [] name = "Exp0" ->
         \* {"email":"jd@x.c","exp":0}
         <<123, 34, 101, 109, 97, 105, 108, 34, 58, 34, 106, 100, 64, 120, 46, 99, 34, 44, 34, 101, 120, 112, 34, 58, 48, 125>>
    [] name = "ExpNaN" ->
         \* {"email":"jd@x.c","exp":"abc"}
         <<123, 34, 101, 109, 97, 105, 108, 34, 58, 34, 106, 100, 64, 120, 46, 99, 34, 44, 34, 101, 120, 112, 34, 58, 34, 97, 98, 99, 34, 125>>
    [] name = "ExpNull" ->
         \* {"email":"jd@x.c","exp":null}
         <<123, 34, 101, 109, 97, 105, 108, 34, 58, 34, 106, 100, 64, 120, 46, 99, 34, 44, 34, 101, 120, 112, 34, 58, 110, 117, 108, 108, 125>>
    [] name = "ExpStr" ->
         \* {"email":"jd@x.c","exp":"2"}
         <<123, 34, 101, 109, 97, 105, 108, 34, 58, 34, 106, 100, 64, 120, 46, 99, 34, 44, 34, 101, 120, 112, 34, 58, 34, 50, 34, 125>>
    [] name = "ExpTrue" ->
         \* {"email":"jd@x.c","exp":true}
         <<123, 34, 101, 109, 97, 105, 108, 34, 58, 34, 106, 100, 64, 120, 46, 99, 34, 44, 34, 101, 120, 112, 34, 58, 116, 114, 117, 101, 125>>
    [] name = "EmailWs" ->
         \* {"email":" ","exp":2}
         <<123, 34, 101, 109, 97, 105, 108, 34, 58, 34, 32, 34, 44, 34, 101, 120, 112, 34, 58, 50, 125>>
    [] name = "EmailEmpty" ->
         \* {"email":"","exp":2}
         <<123, 34, 101, 109, 97, 105, 108, 34, 58, 34, 34, 44, 34, 101, 120, 112, 34, 58, 50, 125>>
    [] name = "EmailNum" ->
         \* {"email":5,"exp":2}
         <<123, 34, 101, 109, 97, 105, 108, 34, 58, 53, 44, 34, 101, 120, 112, 34, 58, 50, 125>>
    [] name = "EmailArr" ->
         \* {"email":[],"exp":2}
         <<123, 34, 101, 109, 97, 105, 108, 34, 58, 91, 93, 44, 34, 101, 120, 112, 34, 58, 50, 125>>
    [] name = "EmailNull" ->
         \* {"email":null,"exp":2}
         <<123, 34, 101, 109, 97, 105, 108, 34, 58, 110, 117, 108, 108, 44, 34, 101, 120, 112, 34, 58, 50, 125>>
    [] name = "EmailObj" ->
         \* {"email":{},"exp":2}
         <<123, 34, 101, 109, 97, 105, 108, 34, 58, 123, 125, 44, 34, 101, 120, 112, 34, 58, 50, 125>>
    [] name = "Bad" ->
         \* {bad
         <<123, 98, 97, 100>>
    [] OTHER -> <<>>

\* The emails for the masking are the strings over "a", "b", "@"; a string
\* is numbered by its characters as the base-4 digits 1, 2, 3 (first
\* character lowest), and MaskEmail(k) is the string of the number k
RECURSIVE MaskEmail(_)
MaskEmail(k) ==
  IF k = 0 THEN <<>>
  ELSE <<(IF k % 4 = 3 THEN 64 ELSE 96 + (k % 4))>> \o MaskEmail(k \div 4)

RECURSIVE IsMaskCode(_)
IsMaskCode(k) ==
  IF k = 0 THEN TRUE ELSE IF k % 4 = 0 THEN FALSE ELSE IsMaskCode(k \div 4)

MaskCodes == {k \in 0..(4 ^ MaxEmailLen - 1) : IsMaskCode(k)}

\* {"email":"<the string>","exp":2}
MaskPayload(k) ==
  <<123, 34, 101, 109, 97, 105, 108, 34, 58, 34>>
    \o MaskEmail(k) \o <<34, 44, 34, 101, 120, 112, 34, 58, 50, 125>>

\* bytes with bit k (0 .. 8 * Len - 1) inverted
FlipBit(bytes, k) ==
  LET j == (k \div 8) + 1
      w == 2 ^ (k % 8)
  IN [bytes EXCEPT ![j] = IF (@ \div w) % 2 = 1 THEN @ - w ELSE @ + w]

\* A token is described by [p |-> payload name, m |-> how it is made,
\* k |-> a bit of the signature, or the number of the email of "Mask"].
Tok(p, m, k) == [p |-> p, m |-> m, k |-> k]

\* payload ++ "." ++ HMAC(secret, payload), the wire format
WireBytes(p) == p \o <<SepByte>> \o HmacSha256(UNSUB_SECRET, p)

\* the bytes a described token decodes to
TokenBytes(d) ==
  LET p == IF d.p = "Mask" THEN MaskPayload(d.k) ELSE PayloadText(d.p)
  IN CASE d.m = "good"  -> WireBytes(p)
       \* another byte in place of the separator, signature over the payload
       [] d.m = "sep"   -> p \o <<SepByte + 1>> \o HmacSha256(UNSUB_SECRET, p)
       \* one bit of the signature inverted
       [] d.m = "flip"  -> p \o <<SepByte>> \o FlipBit(HmacSha256(UNSUB_SECRET, p), d.k)
       \* signed with another secret
       [] d.m = "key"   -> p \o <<SepByte>> \o HmacSha256(OtherSecret, p)
       \* cut to the 32 bytes of the signature
       [] d.m = "short" -> HmacSha256(UNSUB_SECRET, p)
       [] OTHER         -> WireBytes(p)

\* req.query.token of a described token
QueryToken(d) ==
  CASE d.m = "undefined" -> JUndefined
    [] d.m = "empty"     -> JStr(<<>>)
    [] d.m = "noarray"   -> JArr(<<>>)
    [] d.m = "array"     -> JArr(<<JStr(Base64UrlEncode(TokenBytes(d))), JStr(<<65>>)>>)
    [] OTHER             -> JStr(Base64UrlEncode(TokenBytes(d)))

\* the payloads whose token is accepted at some time
ValidNames == {"A1", "A2", "B2"}

\* every token of the model
AllTokens ==
  {Tok(p, "good", 0) : p \in PayloadNames}
    \cup {Tok(p, m, 0) : p \in {"A1", "A2", "Bad"}, m \in {"sep", "key", "short", "array"}}
    \cup {Tok("A2", "flip", k) : k \in 0..(8 * SigLen - 1)}
    \cup {Tok(p, "flip", k) : p \in {"A1", "Bad", "Null"}, k \in {0, 8 * SigLen - 1}}
    \cup {Tok("A2", m, 0) : m \in {"undefined", "empty", "noarray"}}

Methods == {"GET", "POST", "PUT"}

\* VISIBLE_UNSUB_REDIRECT: unset, an absolute URL, a path
RedirectUnset == <<>>
\* "https://n.nl/u"
RedirectURL == <<104, 116, 116, 112, 115, 58, 47, 47, 110, 46, 110, 108, 47, 117>>
\* "/u"
RedirectPath == <<47, 117>>
Redirects == {RedirectUnset, RedirectURL, RedirectPath}

\* the milliseconds of a second at which the clock is read
MsSamples == {0, 1}
ClockValues == {sec * MsPerSec + ms : sec \in 0..MaxSec, ms \in MsSamples}

\* ------------------------------------------------------------------------
\* State
\* ------------------------------------------------------------------------
VARIABLES
  hasPool,      \* a pool exists (DATABASE_URL is set)
  redirect,     \* VISIBLE_UNSUB_REDIRECT
  now,          \* the clock, in milliseconds
  tableExists,  \* the suppression table has been created
  rows,         \* the rows of the suppression table
  req,          \* the requests: position in handler() and what they got (with
                \* the history of each: errors logged, calls of saveSuppression,
                \* upsert statements sent, failures of the backend)
  lastWrite,    \* history: per email, the last upsert statement that succeeded
  at            \* history: the time each request arrived (-1: not recorded)

vars == <<hasPool, redirect, now, tableExists, rows, req, lastWrite, at>>

Requests == 1..MaxRequests

\* a request that has not arrived
NewRequest ==
  [pc |-> "new", method |-> "", tok |-> Tok("", "", 0),
   email |-> <<>>, source |-> "", status |-> 0, body |-> "", shown |-> <<>>,
   headers |-> {}, threw |-> FALSE, logged |-> 0, saveCalls |-> 0,
   upserts |-> 0, wrote |-> FALSE, faults |-> 0]

Init ==
  /\ hasPool \in BOOLEAN
  /\ redirect \in Redirects
  /\ now = 0
  /\ tableExists = FALSE
  /\ rows = <<>>
  /\ req = [r \in Requests |-> NewRequest]
  /\ lastWrite = {}
  /\ at = [r \in Requests |-> -1]

\* ------------------------------------------------------------------------
\* The store
\* ------------------------------------------------------------------------
RowsOf(email) == {i \in DOMAIN rows : rows[i].email = email}

\* (a variant: a plain INSERT into a table without the primary key)
InsertRow(table, email, source, ts) ==
  Append(table, [email |-> email, source |-> source,
                 reason |-> "user-request", ts |-> ts])

\* (a variant: ON CONFLICT (email) DO NOTHING)
InsertIfAbsent(table, email, source, ts) ==
  IF \E i \in DOMAIN table : table[i].email = email
  THEN table
  ELSE Append(table, [email |-> email, source |-> source,
                      reason |-> "user-request", ts |-> ts])

\* INSERT INTO suppression (email, source, reason) VALUES ($1, $2,
\* 'user-request') ON CONFLICT (email) DO UPDATE SET source, reason, ts = now()
UpsertRow(table, email, source, ts) ==
  IF \E i \in DOMAIN table : table[i].email = email
  THEN [i \in DOMAIN table |->
          IF table[i].email = email
          THEN [table[i] EXCEPT !.source = source, !.reason = "user-request", !.ts = ts]
          ELSE table[i]]
  ELSE Append(table, [email |-> email, source |-> source,
                      reason |-> "user-request", ts |-> ts])

\* ------------------------------------------------------------------------
\* Actions
\* ------------------------------------------------------------------------
\* the readings of a clock that does not run backwards
Readings(clock) == {t \in clock : t >= now}

\* handler() from its first line to its first await, at the time t: the
\* headers, the method check, the verification of the token, and the call of
\* saveSuppression, which returns at once without a pool; d is the token
\* and c what CheckToken finds for it.  The requests are
\* numbered in the order they arrive.
Receive(r, method, d, c, t) ==
  /\ req[r].pc = "new"
  /\ \A q \in Requests : q < r => req[q].pc # "new"
  /\ now' = t
  /\ LET o == Verify(method, c, t)
         base == [req[r] EXCEPT !.method = method, !.tok = d,
                                !.headers = SetHeader({}, "Cache-Control",
                                                      "no-store, max-age=0")]
     IN req' = [req EXCEPT ![r] =
          CASE o.kind = "response" ->
                 [base EXCEPT !.pc = "done", !.status = o.status, !.body = o.body,
                              !.headers = IF o.status = 405
                                          THEN SetHeader(@, "Allow", "GET, POST")
                                          ELSE @]
            [] o.kind = "throw" ->
                 [base EXCEPT !.pc = "done", !.threw = TRUE]
            [] OTHER ->
                 [base EXCEPT !.pc = IF hasPool THEN "ensure" ELSE "respond",
                              !.email = o.email, !.source = o.source,
                              !.saveCalls = @ + 1]]
  /\ UNCHANGED <<hasPool, redirect, tableExists, rows, lastWrite>>

\* await pool.query(CREATE TABLE IF NOT EXISTS ...): it succeeds, or it
\* throws and handler() logs the error
EnsureSchema(r, ok) ==
  /\ req[r].pc = "ensure"
  /\ IF ok
     THEN /\ tableExists' = TRUE
          /\ req' = [req EXCEPT ![r].pc = "upsert"]
     ELSE /\ tableExists' = tableExists
          /\ req' = [req EXCEPT ![r].pc = "respond", ![r].logged = @ + 1,
                                ![r].faults = IF ok THEN @ ELSE @ + 1]
  /\ UNCHANGED <<hasPool, redirect, now, rows, lastWrite, at>>

\* (a variant: a statement that threw is sent once more)
UpsertRetrying(r, ok, t) ==
  /\ req[r].pc = "upsert"
  /\ now' = t
  /\ IF ok /\ tableExists
     THEN /\ rows' = UpsertRow(rows, req[r].email, req[r].source, t)
          /\ lastWrite' = {w \in lastWrite : w.email # req[r].email}
                            \cup {[email |-> req[r].email, source |-> req[r].source,
                                   ts |-> t, by |-> r]}
          /\ req' = [req EXCEPT ![r].pc = "respond", ![r].upserts = @ + 1,
                                ![r].wrote = TRUE]
     ELSE /\ UNCHANGED <<rows, lastWrite>>
          /\ req' = [req EXCEPT ![r].pc = IF req[r].upserts = 0 THEN "upsert" ELSE "respond",
                                ![r].upserts = @ + 1,
                                ![r].logged = IF req[r].upserts = 0 THEN @ ELSE @ + 1,
                                ![r].faults = IF ok THEN @ ELSE @ + 1]
  /\ UNCHANGED <<hasPool, redirect, tableExists, at>>

\* await pool.query(INSERT ... ON CONFLICT ...), executed at the time t: it
\* succeeds, or it throws and handler() logs the error
Upsert(r, ok, t) ==
  /\ req[r].pc = "upsert"
  /\ now' = t
  /\ IF ok /\ tableExists
     THEN /\ rows' = UpsertRow(rows, req[r].email, req[r].source, t)
          /\ lastWrite' = {w \in lastWrite : w.email # req[r].email}
                            \cup {[email |-> req[r].email, source |-> req[r].source,
                                   ts |-> t, by |-> r]}
          /\ req' = [req EXCEPT ![r].pc = "respond", ![r].upserts = @ + 1,
                                ![r].wrote = TRUE]
     ELSE /\ UNCHANGED <<rows, lastWrite>>
          /\ req' = [req EXCEPT ![r].pc = "respond", ![r].upserts = @ + 1,
                                ![r].logged = @ + 1,
                                ![r].faults = IF ok THEN @ ELSE @ + 1]
  /\ UNCHANGED <<hasPool, redirect, tableExists, at>>

\* (a variant: saveSuppression is not awaited; the response is sent while
\* its statements are outstanding, and they are dropped with the request)
RespondUnawaited(r) ==
  /\ req[r].pc \in {"ensure", "upsert", "respond"}
  /\ req' = [req EXCEPT ![r] =
       IF req[r].method = "POST"
       THEN [@ EXCEPT !.pc = "done", !.status = 204]
       ELSE [@ EXCEPT !.pc = "done", !.status = 200, !.body = "page",
                      !.shown = maskEmail(req[r].email)]]
  /\ UNCHANGED <<hasPool, redirect, now, tableExists, rows, lastWrite, at>>

\* handler() after saveSuppression: 204 for POST; for GET the redirect when
\* one is configured (new URL() may throw), else the inline page
Respond(r) ==
  /\ req[r].pc = "respond"
  /\ req' = [req EXCEPT ![r] =
       IF req[r].method = "POST"
       THEN [@ EXCEPT !.pc = "done", !.status = 204]
       ELSE IF Len(redirect) > 0
            THEN IF URLThrows(redirect)
                 THEN [@ EXCEPT !.pc = "done", !.threw = TRUE]
                 ELSE [@ EXCEPT !.pc = "done", !.status = 302,
                                !.shown = maskEmail(req[r].email),
                                !.headers = SetHeader(@, "Location", "url.toString()")]
            ELSE [@ EXCEPT !.pc = "done", !.status = 200, !.body = "page",
                           !.shown = maskEmail(req[r].email),
                           !.headers = SetHeader(@, "Content-Type",
                                                 "text/html; charset=utf-8")]]
  /\ UNCHANGED <<hasPool, redirect, now, tableExists, rows, lastWrite, at>>

\* a request of R arrives with a method of methods and a token of pool, at
\* a time of clock
Arrive(R, methods, pool, clock) ==
  /\ \E r \in R, d \in pool :
       /\ req[r].pc = "new"
       /\ LET c == CheckToken(QueryToken(d))
          IN \E method \in methods, t \in Readings(clock) : Receive(r, method, d, c, t)
  /\ UNCHANGED at

\* the same, with the time of arrival recorded
ArriveTimed(R, methods, pool, clock) ==
  \E r \in R, d \in pool :
    /\ req[r].pc = "new"
    /\ LET c == CheckToken(QueryToken(d))
       IN \E method \in methods, t \in Readings(clock) :
            /\ Receive(r, method, d, c, t)
            /\ at' = [at EXCEPT ![r] = t]

Ensure(R) == \E r \in R, ok \in BOOLEAN : EnsureSchema(r, ok)
Write(R, clock) == \E r \in R, ok \in BOOLEAN, t \in Readings(clock) : Upsert(r, ok, t)
Answer(R) == \E r \in R : Respond(r)

\* One request, with any method, token, configuration and store outcome
Next ==
  \/ ArriveTimed({1}, Methods, AllTokens, ClockValues)
  \/ Ensure({1})
  \/ Write({1}, ClockValues)
  \/ Answer({1})

Spec == Init /\ [][Next]_vars

\* Concurrent requests with valid tokens against one store; the statements
\* of the requests interleave in every order
StoreTokens == {Tok("A1", "good", 0), Tok("A2", "good", 0), Tok("B2", "good", 0)}
StoreClock == {sec * MsPerSec : sec \in 0..MaxSec}

InitStore == Init /\ redirect = RedirectUnset

NextStore ==
  \/ Arrive(Requests, {"GET", "POST"}, StoreTokens, StoreClock)
  \/ Ensure(Requests)
  \/ Write(Requests, StoreClock)
  \/ Answer(Requests)

SpecStore == InitStore /\ [][NextStore]_vars

\* Two requests with the same token, the second after the first is answered
PairTokens ==
  {Tok(p, "good", 0) : p \in {"A1", "A2", "Null", "Bad", "Exp0", "ExpNaN", "ExpStr"}}
    \cup {Tok("A1", m, 0) : m \in {"sep", "key", "short", "undefined"}}

Pair == {1, 2}

NextPair ==
  \/ /\ req[1].pc \in {"new", "done"}
     /\ ArriveTimed(Pair, {"GET", "POST"},
                    {d \in PairTokens : req[1].pc = "new" \/ req[1].tok = d},
                    ClockValues)
  \/ Ensure(Pair)
  \/ Write(Pair, ClockValues)
  \/ Answer(Pair)

SpecPair == Init /\ [][NextPair]_vars

\* One GET before exp, without a store, with a valid token for each email
\* of MaskCodes: the confirmation shows the masked email
MaskTokens == {Tok("Mask", "good", k) : k \in MaskCodes}

InitMask == Init /\ ~hasPool /\ redirect # RedirectPath

NextMask ==
  \/ ArriveTimed({1}, {"GET"}, MaskTokens, {0})
  \/ Answer({1})

SpecMask == InitMask /\ [][NextMask]_vars

\* ------------------------------------------------------------------------
\* What the tokens of the model are, by the way they were made (used to
\* state the properties independently of the handler's own checks)
\* ------------------------------------------------------------------------
\* a token string is supplied
Supplied(d) == d.m \notin {"undefined", "empty", "noarray"}
\* it decodes to at least 33 bytes with the separator before the last 32
WellFormed(d) == Supplied(d) /\ d.m \notin {"sep", "short"}
\* its last 32 bytes are the HMAC of the payload under UNSUB_SECRET
Signed(d) == WellFormed(d) /\ d.m \notin {"flip", "key"}
\* its payload is JSON text
Parses(d) == d.p \notin {"Bad", "Empty"}
\* its payload is an object with a non-empty, non-null email and exp
HasFields(d) ==
  d.p \in {"A1", "A2", "B2", "ExpNaN", "ExpStr", "ExpTrue",
           "EmailWs", "EmailNum", "EmailArr", "EmailObj"}
\* its exp is a JSON number, and which
NumericExp(d) == HasFields(d) /\ d.p \notin {"ExpNaN", "ExpStr", "ExpTrue"}
ExpSeconds(d) == IF d.p = "A1" THEN 1 ELSE 2

Arrived(r) == req[r].pc # "new"
Done(r) == req[r].pc = "done"
ErrorTags == {"missing token", "bad token", "signature", "payload", "expired"}
\* the request was answered with a verification error
Rejected(r) == Done(r) /\ req[r].status = 400 /\ req[r].body \in ErrorTags
\* the request called saveSuppression or sent a statement to the store
WriteAttempted(r) == req[r].saveCalls > 0 \/ req[r].upserts > 0 \/ req[r].wrote

\* ------------------------------------------------------------------------
\* C1: a suppression write is attempted for a request only if its token
\* passed every verification check (decoded to >= 33 bytes, separator 0x2E,
\* trailing 32 bytes the HMAC of the payload, payload parsed with email and
\* exp, not expired when the request came); a request answered with one of
\* the five error tags attempted no write and left the store as it was.
\* ------------------------------------------------------------------------
C1_PassedAllChecks(r) ==
  /\ req[r].method \in {"GET", "POST"}
  /\ Signed(req[r].tok)
  /\ Parses(req[r].tok)
  /\ HasFields(req[r].tok)
  /\ NumericExp(req[r].tok) => at[r] <= ExpSeconds(req[r].tok) * MsPerSec

C1_WriteOnlyIfVerified ==
  /\ \A r \in Requests : WriteAttempted(r) => C1_PassedAllChecks(r)
  /\ \A r \in Requests : Rejected(r) => ~WriteAttempted(r) /\ rows = <<>> /\ ~tableExists

\* a request with a valid token has written its row
C1_Witness ==
  /\ req[1].wrote
  /\ req[1].tok = Tok("A1", "good", 0)
  /\ at[1] = MsPerSec
  /\ Len(rows) = 1


\* ------------------------------------------------------------------------
\* C2: under every interleaving of concurrent requests with valid tokens
\* for the same normalized email, the store never holds two records for one
\* email; once a request's upsert has succeeded the record is there (none is
\* lost); a request that met no backend failure has written its record when
\* it is answered; and every error logged is a failure of the backend, none
\* comes from the interleaving.
\* ------------------------------------------------------------------------
C2_OneRecordPerEmail ==
  /\ \A i, j \in DOMAIN rows : rows[i].email = rows[j].email => i = j
  /\ \A r \in Requests : req[r].wrote => Cardinality(RowsOf(req[r].email)) = 1
  /\ \A r \in Requests :
       Done(r) /\ req[r].saveCalls > 0 /\ hasPool /\ req[r].faults = 0
         => req[r].wrote
  /\ \A r \in Requests : req[r].logged = req[r].faults

\* two requests for the same email, with different tokens, both past their
\* upsert and neither answered yet
C2_Witness ==
  /\ req[1].pc = "respond" /\ req[2].pc = "respond"
  /\ req[1].wrote /\ req[2].wrote
  /\ req[1].tok # req[2].tok
  /\ req[1].email = req[2].email
  /\ Cardinality(RowsOf(req[1].email)) = 1

\* ------------------------------------------------------------------------
\* C3: after any sequence of successful store writes the store holds, for
\* each email written, exactly one record: its source is the tag of the last
\* write ("one-click" for POST, "web" for GET), its reason "user-request",
\* its timestamp the time of the last write; and it holds nothing else.  (A
\* replay with the same source therefore changes the timestamp only.)
\* ------------------------------------------------------------------------
C3_LastWriteWins ==
  /\ Len(rows) = Cardinality(lastWrite)
  /\ \A w \in lastWrite :
       \E i \in DOMAIN rows :
         /\ RowsOf(w.email) = {i}
         /\ rows[i] = [email  |-> w.email,
                       source |-> IF req[w.by].method = "POST" THEN "one-click" ELSE "web",
                       reason |-> "user-request",
                       ts     |-> w.ts]

\* a GET at second 0 and then a POST at second 1, with different tokens for
\* the same email: the record is the POST's
C3_Witness ==
  /\ req[1].wrote /\ req[2].wrote
  /\ req[1].method = "GET" /\ req[2].method = "POST"
  /\ req[1].tok = Tok("A1", "good", 0) /\ req[2].tok = Tok("A2", "good", 0)
  /\ rows = <<[email |-> req[2].email, source |-> "one-click",
               reason |-> "user-request", ts |-> MsPerSec]>>

\* ------------------------------------------------------------------------
\* C4: a request with a valid, unexpired token gets the success response of
\* its method whatever the store does: POST 204 with an empty body, GET the
\* redirect (302) or the inline page (200).
\* ------------------------------------------------------------------------
C4_ValidUnexpired(r) ==
  /\ req[r].method \in {"GET", "POST"}
  /\ Signed(req[r].tok)
  /\ req[r].tok.p \in ValidNames
  /\ at[r] <= ExpSeconds(req[r].tok) * MsPerSec

C4_SuccessWhateverStore ==
  \A r \in Requests :
    Done(r) /\ C4_ValidUnexpired(r) =>
      /\ ~req[r].threw
      /\ req[r].method = "POST" => req[r].status = 204 /\ req[r].body = ""
      /\ req[r].method = "GET" => req[r].status \in {302, 200}

\* ------------------------------------------------------------------------
\* C5: every request ends with one response chosen by the handler, and no
\* exception leaves the handler, for every method, token, signed JSON
\* payload, store outcome and redirect configuration.
\* ------------------------------------------------------------------------
C5_NoEscape ==
  \A r \in Requests :
    /\ ~req[r].threw
    /\ Done(r) => req[r].status \in {405, 400, 204, 302, 200}

\* ------------------------------------------------------------------------
\* C6: the checks run in the order missing token, decode/length/separator,
\* signature, payload parse, required fields, expiry, and the answer is a
\* 400 with the tag of the first check that fails; a token that fails none
\* is not rejected.
\* ------------------------------------------------------------------------
C6_ExpectedTag(r) ==
  LET d == req[r].tok
  IN IF ~Supplied(d) THEN "missing token"
     ELSE IF ~WellFormed(d) THEN "bad token"
     ELSE IF ~Signed(d) THEN "signature"
     ELSE IF ~Parses(d) \/ ~HasFields(d) THEN "payload"
     ELSE IF NumericExp(d) /\ at[r] > ExpSeconds(d) * MsPerSec THEN "expired"
     ELSE ""

C6_FirstFailingCheck ==
  \A r \in Requests :
    Done(r) /\ req[r].method \in {"GET", "POST"} =>
      IF C6_ExpectedTag(r) = ""
      THEN NumericExp(req[r].tok) => ~Rejected(r)
      ELSE Rejected(r) /\ req[r].body = C6_ExpectedTag(r)

\* ------------------------------------------------------------------------
\* C7 (as stated): for a signed token with email and a numeric exp, the
\* request passes the expiry check exactly if the current time in whole
\* seconds is <= exp; a request during the second now == exp succeeds.
\* ------------------------------------------------------------------------
C7_Covered(r) ==
  /\ Arrived(r)
  /\ req[r].method \in {"GET", "POST"}
  /\ Signed(req[r].tok)
  /\ NumericExp(req[r].tok)

C7_PassedExpiry(r) == req[r].saveCalls > 0 /\ ~Rejected(r)

C7_WholeSeconds ==
  \A r \in Requests :
    C7_Covered(r) =>
      (C7_PassedExpiry(r) <=> at[r] \div MsPerSec <= ExpSeconds(req[r].tok))

\* ------------------------------------------------------------------------
\* C7 (amended): for a signed token with a non-empty email and a non-zero
\* numeric exp, the request passes the expiry check exactly if the clock
\* reading in milliseconds is <= exp * 1000 (the unrounded time in seconds
\* is <= exp); otherwise it is answered "expired".
\* ------------------------------------------------------------------------
C7_Milliseconds ==
  \A r \in Requests :
    C7_Covered(r) =>
      /\ C7_PassedExpiry(r) <=> at[r] <= ExpSeconds(req[r].tok) * MsPerSec
      /\ ~C7_PassedExpiry(r) => Rejected(r) /\ req[r].body = "expired"

\* a request at the very millisecond exp * 1000 has passed
C7_Witness ==
  /\ req[1].tok = Tok("A1", "good", 0)
  /\ at[1] = ExpSeconds(req[1].tok) * MsPerSec
  /\ C7_PassedExpiry(1)

\* ------------------------------------------------------------------------
\* C8: with a fixed secret and a clock that does not run backwards, once a
\* request with a token has been rejected with a verification error, every
\* later GET or POST with that token is rejected with a verification error
\* and attempts no write, whatever happened to the store in between; two
\* requests with the same token at the same clock reading are verified alike.
\* ------------------------------------------------------------------------
C8_RejectionPermanent ==
  \A r1, r2 \in Requests :
    /\ Arrived(r1) /\ Arrived(r2)
    /\ req[r1].tok = req[r2].tok
    /\ req[r2].method \in {"GET", "POST"}
    =>
    /\ r1 < r2 /\ at[r1] <= at[r2] /\ Rejected(r1)
         => Rejected(r2) /\ ~WriteAttempted(r2)
    /\ at[r1] = at[r2] /\ req[r1].method \in {"GET", "POST"}
         => /\ Rejected(r1) <=> Rejected(r2)
            /\ Rejected(r1) => req[r1].body = req[r2].body
            /\ req[r1].saveCalls = req[r2].saveCalls

\* a token rejected as expired one millisecond after its exp, by one
\* method, and rejected again at the next second by the other method
C8_Witness ==
  /\ req[1].tok = Tok("A1", "good", 0) /\ req[2].tok = req[1].tok
  /\ at[1] = MsPerSec + 1 /\ Rejected(1) /\ req[1].body = "expired"
  /\ at[2] = 2 * MsPerSec /\ Rejected(2) /\ req[2].body = "expired"
  /\ req[1].method # req[2].method

\* ------------------------------------------------------------------------
\* C9: a POST and a GET with the same token at the same clock reading agree
\* on everything but the source tag and the shape of the success response:
\* both fail alike and neither writes, or both succeed (204; 302 or 200) and
\* both upsert the same normalized email.
\* ------------------------------------------------------------------------
C9_MethodIndependent ==
  \A r1, r2 \in Requests :
    /\ Done(r1) /\ Done(r2)
    /\ req[r1].tok = req[r2].tok
    /\ at[r1] = at[r2]
    /\ req[r1].method = "POST" /\ req[r2].method = "GET"
    =>
    \/ /\ req[r1].status = req[r2].status
       /\ req[r1].body = req[r2].body
       /\ req[r1].threw = req[r2].threw
       /\ req[r1].status \notin {204, 302, 200}
       /\ ~WriteAttempted(r1) /\ ~WriteAttempted(r2)
    \/ /\ req[r1].status = 204 /\ req[r2].status \in {302, 200}
       /\ req[r1].saveCalls = 1 /\ req[r2].saveCalls = 1
       /\ req[r1].email = req[r2].email
       /\ req[r1].source = "one-click" /\ req[r2].source = "web"

\* ------------------------------------------------------------------------
\* C10: a well-formed token with one bit of its 32 signature bytes inverted
\* is answered "signature" and attempts no write; a token gets past the
\* signature check only if its last 32 bytes are the HMAC of its payload;
\* safeEqual is false for byte strings of different length or content.
\* ------------------------------------------------------------------------
C10_Digest == HmacSha256(UNSUB_SECRET, PayloadText("A2"))
C10_Samples ==
  {C10_Digest, <<>>, SubSeq(C10_Digest, 1, 1), SubSeq(C10_Digest, 1, SigLen - 1),
   C10_Digest \o <<0>>, FlipBit(C10_Digest, 0), FlipBit(C10_Digest, 8 * SigLen - 1)}

C10_PastSignature(r) ==
  /\ Arrived(r)
  /\ req[r].method \in {"GET", "POST"}
  /\ ~(Rejected(r) /\ req[r].body \in {"missing token", "bad token", "signature"})

C10_SignatureExact ==
  /\ \A r \in Requests :
       Arrived(r) /\ req[r].method \in {"GET", "POST"} /\ req[r].tok.m = "flip"
         => Rejected(r) /\ req[r].body = "signature" /\ ~WriteAttempted(r)
  /\ \A r \in Requests : C10_PastSignature(r) => Signed(req[r].tok)
  /\ \A a, b \in C10_Samples : safeEqual(a, b) <=> a = b

\* the token with the last bit of its signature inverted has been rejected
C10_Witness ==
  /\ req[1].tok = Tok("A2", "flip", 8 * SigLen - 1)
  /\ Rejected(1) /\ req[1].body = "signature"
  /\ req[1].method = "POST"

\* ------------------------------------------------------------------------
\* C11: for every valid token and every time up to its exp the request
\* succeeds, and the email it uses as the key of the store and as the input
\* of the masking is the email of the payload, trimmed and in lower case;
\* every key in the store is a fixed point of trim and lower case; tokens
\* whose emails differ in case or surrounding white space ("Jd@X.c " and
\* "jd@x.c") write the same single record.
\* ------------------------------------------------------------------------
\* the normalized email of a valid payload: "k@y.d" for B2, "jd@x.c" else
C11_Expected(p) ==
  IF p = "B2" THEN <<107, 64, 121, 46, 100>> ELSE <<106, 100, 64, 120, 46, 99>>

\* its masked form: "k***@y.d", "j***@x.c"
C11_Masked(p) ==
  IF p = "B2" THEN <<107, 42, 42, 42, 64, 121, 46, 100>>
  ELSE <<106, 42, 42, 42, 64, 120, 46, 99>>

C11_NormalizedKey ==
  /\ \A r \in Requests :
       Arrived(r) /\ C4_ValidUnexpired(r) =>
         /\ req[r].saveCalls = 1
         /\ req[r].email = C11_Expected(req[r].tok.p)
         /\ Done(r) =>
              /\ ~req[r].threw
              /\ req[r].status \in {204, 302, 200}
              /\ req[r].method = "GET" => req[r].shown = C11_Masked(req[r].tok.p)
  /\ \A i \in DOMAIN rows : ToLowerCase(Trim(rows[i].email)) = rows[i].email
  /\ \A r \in Requests :
       req[r].wrote /\ req[r].tok.p \in {"A1", "A2"} =>
         \E i \in DOMAIN rows : RowsOf(C11_Expected("A1")) = {i}

\* ------------------------------------------------------------------------
\* C12: a request whose method is neither GET nor POST is answered 405 with
\* the header Allow: GET, POST whatever its token is; nothing of the token
\* is verified or used, no write is attempted, no error is logged and the
\* store is as it was.
\* ------------------------------------------------------------------------
C12_MethodNotAllowed ==
  \A r \in Requests :
    Arrived(r) /\ req[r].method \notin {"GET", "POST"} =>
      /\ Done(r) /\ ~req[r].threw
      /\ req[r].status = 405 /\ req[r].body = "Method Not Allowed"
      /\ HeaderValue(req[r].headers, "Allow") = "GET, POST"
      /\ req[r].email = <<>> /\ req[r].source = ""
      /\ ~WriteAttempted(r) /\ req[r].logged = 0
      /\ rows = <<>> /\ ~tableExists /\ lastWrite = {}

\* a PUT with a valid token, before its exp, with a store configured
C12_Witness ==
  /\ req[1].method = "PUT"
  /\ req[1].tok = Tok("A2", "good", 0)
  /\ at[1] = 0 /\ hasPool
  /\ req[1].status = 405

\* ------------------------------------------------------------------------
\* C13: maskEmail agrees with the specified masking for every string over
\* an alphabet with "@": a string without "@" is returned unchanged; a
\* string local@domain with one "@" (local or domain may be empty) gives
\* the first character of local, "***@" and domain when local has at most 2
\* characters, and the first two characters of local, "***@" and domain
\* otherwise ("jane.doe@example.com" gives "ja***@example.com").
\* ------------------------------------------------------------------------
C13_Ats(s) == {i \in DOMAIN s : s[i] = 64}

C13_Specified(s) ==
  IF C13_Ats(s) = {} THEN s
  ELSE LET i      == CHOOSE j \in C13_Ats(s) : TRUE
           local  == SubSeq(s, 1, i - 1)
           domain == SubSeq(s, i + 1, Len(s))
           shown  == IF Len(local) = 0 THEN <<>>
                     ELSE IF Len(local) <= 2 THEN <<local[1]>>
                     ELSE <<local[1], local[2]>>
       IN shown \o <<42, 42, 42, 64>> \o domain

C13_Answered(r) == Done(r) /\ req[r].status \in {200, 302}

C13_MaskAsSpecified ==
  /\ \A r \in Requests :
       C13_Answered(r) /\ Cardinality(C13_Ats(req[r].email)) <= 1
         => req[r].shown = C13_Specified(req[r].email)
  \* maskEmail("jane.doe@example.com") is "ja***@example.com"
  /\ maskEmail(<<106, 97, 110, 101, 46, 100, 111, 101, 64, 101, 120, 97, 109,
                 112, 108, 101, 46, 99, 111, 109>>)
       = <<106, 97, 42, 42, 42, 64, 101, 120, 97, 109, 112, 108, 101, 46, 99, 111, 109>>

\* ------------------------------------------------------------------------
\* C14: every response of the handler (405, the five 400s, 204, 302, 200)
\* carries Cache-Control: no-store; the header is set before any response is
\* sent, and from then on it is neither removed nor given another value.
\* ------------------------------------------------------------------------
C14_CacheControl(r) ==
  {h \in req[r].headers : h[1] = "Cache-Control"}
    = {<<"Cache-Control", "no-store, max-age=0">>}

C14_NoStore ==
  /\ \A r \in Requests : Arrived(r) => C14_CacheControl(r)
  /\ \A r \in Requests : req[r].status # 0 => Done(r) /\ C14_CacheControl(r)

\* a redirect has been sent with the Location header set after Cache-Control
C14_Witness ==
  /\ Done(1) /\ req[1].status = 302
  /\ HeaderValue(req[1].headers, "Location") # ""
  /\ HeaderValue(req[1].headers, "Cache-Control") = "no-store, max-age=0"
  /\ req[1].wrote

\* ------------------------------------------------------------------------
\* C15: a request calls saveSuppression at most once and sends each of its
\* two statements at most once; when a statement throws the handler logs
\* once and goes on to the response, it does not try again; upsert
\* statements are sent only by requests that passed verification, one each
\* at most, so they are never more than those requests.
\* ------------------------------------------------------------------------
C15_Passed == {r \in Requests : Arrived(r) /\ ~Rejected(r)}
C15_Upserting == {r \in Requests : req[r].upserts > 0}

C15_AtMostOneAttempt ==
  /\ \A r \in Requests :
       /\ req[r].saveCalls <= 1
       /\ req[r].upserts <= req[r].saveCalls
       /\ req[r].faults <= 1
       /\ req[r].logged = req[r].faults
       /\ req[r].faults > 0 => req[r].pc \in {"respond", "done"} /\ ~req[r].wrote
  /\ C15_Upserting \subseteq C15_Passed
  /\ Cardinality(C15_Upserting) <= Cardinality(C15_Passed)

\* the upsert of one request threw, was logged, and the request was
\* answered 204; the other request was rejected and sent no statement
C15_Witness ==
  /\ Done(1) /\ req[1].status = 204
  /\ req[1].upserts = 1 /\ req[1].faults = 1 /\ req[1].logged = 1 /\ ~req[1].wrote
  /\ Rejected(2) /\ req[2].upserts = 0
  /\ rows = <<>> /\ tableExists

\* ------------------------------------------------------------------------
\* C16: a 204, 302 or 200 is sent for a request only after its call of
\* saveSuppression has returned or thrown: no request has a status while
\* one of its statements is outstanding; and when such a response is sent
\* with a backend configured and no statement of the request thrown, the
\* store holds a record for the request's normalized email, whatever other
\* requests did in between.
\* ------------------------------------------------------------------------
C16_Success(r) == Done(r) /\ req[r].status \in {204, 302, 200}

C16_WriteBeforeResponse ==
  /\ \A r \in Requests : req[r].pc \in {"ensure", "upsert"} => req[r].status = 0
  /\ \A r \in Requests :
       C16_Success(r) =>
         /\ req[r].saveCalls = 1
         /\ hasPool => req[r].faults = 1 \/ req[r].upserts = 1
         /\ hasPool /\ req[r].faults = 0 =>
              \E i \in DOMAIN rows : rows[i].email = req[r].email

\* a request was answered after its write, and the record it finds is the
\* one another request for the same email has overwritten since
C16_Witness ==
  /\ C16_Success(1) /\ req[1].method = "GET" /\ req[1].wrote
  /\ req[2].wrote /\ req[2].method = "POST" /\ req[2].email = req[1].email
  /\ \E w \in lastWrite : w.by = 2 /\ w.email = req[1].email
  /\ \E i \in DOMAIN rows : rows[i].email = req[1].email /\ rows[i].source = "one-click"

\* ------------------------------------------------------------------------
\* C17: no suppression record is keyed by the empty string: a correctly
\* signed, unexpired token, also one whose email is white space only or is
\* not a string, is either rejected with "payload" or the key given to the
\* store is a non-empty normalized string.
\* ------------------------------------------------------------------------
C17_NoEmptyKey ==
  /\ \A i \in DOMAIN rows : Len(rows[i].email) > 0
  /\ \A r \in Requests :
       /\ Arrived(r)
       /\ req[r].method \in {"GET", "POST"}
       /\ Signed(req[r].tok)
       /\ req[r].tok.p \in {"EmailWs", "EmailEmpty", "EmailNum", "EmailArr",
                            "EmailNull", "EmailObj"}
       /\ at[r] <= ExpSeconds(req[r].tok) * MsPerSec
       =>
       \/ Rejected(r) /\ req[r].body = "payload"
       \/ /\ req[r].saveCalls = 1
          /\ Len(req[r].email) > 0
          /\ ToLowerCase(Trim(req[r].email)) = req[r].email

\* ------------------------------------------------------------------------
\* C18: a token is accepted only if its exp is a number that bounds the
\* time: a correctly signed payload with an email and an exp that is present
\* and not null but is not a number (a string that is no number, a string of
\* digits, true) is rejected with "payload" or "expired" at every time, and
\* never leads to a write or a success response; no exp makes a token valid
\* at all times.
\* ------------------------------------------------------------------------
C18_NonNumericExp == {"ExpNaN", "ExpStr", "ExpTrue"}

C18_ExpBoundsTime ==
  \A r \in Requests :
    /\ Arrived(r)
    /\ req[r].method \in {"GET", "POST"}
    /\ Signed(req[r].tok)
    /\ req[r].tok.p \in C18_NonNumericExp
    =>
    /\ Rejected(r) /\ req[r].body \in {"payload", "expired"}
    /\ ~WriteAttempted(r)
    /\ req[r].status \notin {204, 302, 200}
=============================================================================
